---- MODULE Spec2Model ----
(***************************************************************************)
(* A model of newseum (src/newseum.go): the concurrent fetch pipeline of   *)
(* fetchFeeds, the search session of main, and the pure helpers            *)
(* formatDate, fixNitterLink and openURL.                                  *)
(*                                                                         *)
(* Strings are sequences of one-character strings, so that substring       *)
(* search, lower-casing and the two regular expressions are computed       *)
(* character by character.  Instants are whole hours counted from Go's     *)
(* zero time (January 1, year 1, 00:00 UTC); the calendar has 365-day      *)
(* years and a fixed local offset (no leap years, no daylight saving).     *)
(***************************************************************************)
EXTENDS Integers, Sequences, FiniteSets, Bags

(***************************************************************************)
(* Bounds of the model.                                                    *)
(***************************************************************************)
MaxSources == 3
MaxTicks == 1
MaxQueryLen == 2

(***************************************************************************)
(* Program constants.                                                      *)
(***************************************************************************)
workers == 5
HoursPerDay == 24

(***************************************************************************)
(* strings                                                                 *)
(***************************************************************************)
Uppers == <<"A", "B", "C", "D", "E", "F", "G", "H", "I", "J", "K", "L", "M", "N", "O", "P", "Q", "R", "S", "T", "U", "V", "W", "X", "Y", "Z">>
Lowers == <<"a", "b", "c", "d", "e", "f", "g", "h", "i", "j", "k", "l", "m", "n", "o", "p", "q", "r", "s", "t", "u", "v", "w", "x", "y", "z">>
Digits == <<"1", "2", "3", "4", "5", "6", "7", "8", "9">>

ToLowerChar(c) ==
    IF \E i \in 1..Len(Uppers) : Uppers[i] = c
    THEN Lowers[CHOOSE i \in 1..Len(Uppers) : Uppers[i] = c]
    ELSE c

\* strings.ToLower
ToLower(s) == [i \in 1..Len(s) |-> ToLowerChar(s[i])]

\* strings.Index: the first position (from 1) where sub occurs in s, 0 if none
IndexOf(s, sub) ==
    LET hits == {i \in 1..(Len(s) - Len(sub) + 1) : SubSeq(s, i, i + Len(sub) - 1) = sub}
    IN  IF hits = {} THEN 0 ELSE CHOOSE i \in hits : \A j \in hits : i <= j

\* strings.Contains
Contains(s, sub) == IndexOf(s, sub) # 0

\* whether p occurs in s at position i
OccursAt(s, i, p) == i + Len(p) - 1 <= Len(s) /\ SubSeq(s, i, i + Len(p) - 1) = p

\* strings.HasPrefix
HasPrefix(s, p) == OccursAt(s, 1, p)

\* strings.Split(s, sep)[0]
SplitFirst(s, sep) ==
    IF IndexOf(s, sep) = 0 THEN s ELSE SubSeq(s, 1, IndexOf(s, sep) - 1)

(***************************************************************************)
(* time.Time: an instant and the location it is presented in               *)
(***************************************************************************)
ZeroInstant == 0
NilTime == [t |-> -1, loc |-> "nil"]

Time(t, loc) == [t |-> t, loc |-> loc]
UTC(x) == [x EXCEPT !.loc = "UTC"]
Local(x) == [x EXCEPT !.loc = "Local"]
IsZero(x) == x.t = ZeroInstant
After(x, y) == x.t > y.t
Sub(x, y) == x.t - y.t


(***************************************************************************)
(* The calendar of the time package, read in the location of the value.    *)
(* LocalOffset is the zone of the machine, in hours east of UTC.           *)
(***************************************************************************)
LocalOffset == -5
DaysPerYear == 365
MonthDays == <<31, 28, 31, 30, 31, 30, 31, 31, 30, 31, 30, 31>>

OffsetOf(loc) == IF loc = "Local" THEN LocalOffset ELSE 0
WallHours(x) == x.t + OffsetOf(x.loc)
DayIndex(x) == WallHours(x) \div HoursPerDay
HourOfDay(x) == WallHours(x) % HoursPerDay
Year(x) == 1 + (DayIndex(x) \div DaysPerYear)
YearDay(x) == DayIndex(x) % DaysPerYear

RECURSIVE MonthOfYearDay(_, _)
MonthOfYearDay(yd, m) ==
    IF yd < MonthDays[m] THEN m ELSE MonthOfYearDay(yd - MonthDays[m], m + 1)

RECURSIVE DayOfYearDay(_, _)
DayOfYearDay(yd, m) ==
    IF yd < MonthDays[m] THEN yd + 1 ELSE DayOfYearDay(yd - MonthDays[m], m + 1)

Month(x) == MonthOfYearDay(YearDay(x), 1)
\* Time.Day: the day of the month
Day(x) == DayOfYearDay(YearDay(x), 1)
\* Time.Weekday, 0 = Monday (January 1 of year 1 is a Monday)
Weekday(x) == DayIndex(x) % 7
\* Time.AddDate(0, 0, n)
AddDays(x, n) == [x EXCEPT !.t = x.t + n * HoursPerDay]

\* Time.Format("3:04 PM"): the hour on the 12-hour clock and the AM/PM mark
Kitchen(x) ==
    [hour |-> IF HourOfDay(x) % 12 = 0 THEN 12 ELSE HourOfDay(x) % 12,
     mark |-> IF HourOfDay(x) < 12 THEN "AM" ELSE "PM"]

UnknownDate == [form |-> "Unknown date"]

formatDate(date, now) ==
    IF IsZero(date) THEN UnknownDate
    ELSE LET localDate == Local(date)
             localNow == Local(now)
             duration == Sub(localNow, localDate)
         IN  IF duration < 24 /\ Day(localDate) = Day(localNow)
             THEN [form |-> "Today at", at |-> Kitchen(localDate)]
             ELSE IF duration < 48 /\ Day(localDate) = Day(AddDays(localNow, -1))
             THEN [form |-> "Yesterday at", at |-> Kitchen(localDate)]
             ELSE IF duration < 7 * 24
             THEN [form |-> "Monday at", weekday |-> Weekday(localDate),
                   at |-> Kitchen(localDate)]
             ELSE [form |-> "January 2, 2006", month |-> Month(localDate),
                   day |-> Day(localDate), year |-> Year(localDate)]

(***************************************************************************)
(* fixNitterLink                                                           *)
(***************************************************************************)
\* the length of the text `https?://` matches at position i of s, 0 if it does not
SchemeAt(s, i) ==
    IF OccursAt(s, i, <<"h", "t", "t", "p", "s", ":", "/", "/">>) THEN 8
    ELSE IF OccursAt(s, i, <<"h", "t", "t", "p", ":", "/", "/">>) THEN 7
    ELSE 0

\* the position of the "/" that ends `[^/]+` when the regular expression
\* `https?://[^/]+/(.*)` matches s at position i, 0 when it does not match there
HostEndAt(s, i) ==
    LET h == i + SchemeAt(s, i)
        slashes == {j \in h..Len(s) : s[j] = "/"}
        first == IF slashes = {} THEN 0
                 ELSE CHOOSE j \in slashes : \A k \in slashes : j <= k
    IN  IF SchemeAt(s, i) = 0 \/ first <= h THEN 0 ELSE first

\* regexp.FindStringSubmatch: <<found, matches[1]>> of the leftmost match
FindStringSubmatch(s) ==
    LET starts == {i \in 1..Len(s) : HostEndAt(s, i) # 0}
        i0 == CHOOSE i \in starts : \A j \in starts : i <= j
    IN  IF starts = {} THEN [found |-> FALSE, group |-> <<>>]
        ELSE [found |-> TRUE, group |-> SubSeq(s, HostEndAt(s, i0) + 1, Len(s))]

\* fixNitterLink as it would be if it did not cut the fragment off
fixNitterLinkKeepsFragment(feedURL, itemLink) ==
    IF Contains(feedURL, <<"n", "i", "t", "t", "e", "r", ".">>) /\ FindStringSubmatch(itemLink).found
    THEN <<"h", "t", "t", "p", "s", ":", "/", "/", "x", ".", "c", "o", "m", "/">> \o FindStringSubmatch(itemLink).group
    ELSE itemLink

fixNitterLink(feedURL, itemLink) ==
    IF Contains(feedURL, <<"n", "i", "t", "t", "e", "r", ".">>) /\ FindStringSubmatch(itemLink).found
    THEN <<"h", "t", "t", "p", "s", ":", "/", "/", "x", ".", "c", "o", "m", "/">> \o SplitFirst(FindStringSubmatch(itemLink).group, <<"#">>)
    ELSE itemLink

(***************************************************************************)
(* openURL                                                                 *)
(***************************************************************************)
\* regexp `\.(mp3|wav)(?:\?.*)?$` on s
MatchesAudio(s) ==
    \E i \in 1..Len(s) :
        /\ OccursAt(s, i, <<".", "m", "p", "3">>) \/ OccursAt(s, i, <<".", "w", "a", "v">>)
        /\ \/ i + 3 = Len(s)
           \/ i + 3 < Len(s) /\ s[i + 4] = "?"

isAudio(url) == MatchesAudio(ToLower(url))
isYoutube(url) ==
    Contains(ToLower(url), <<"y", "o", "u", "t", "u", "b", "e", ".", "c", "o", "m">>) \/ Contains(ToLower(url), <<"y", "o", "u", "t", "u", ".", "b", "e">>)

mimeType(url) ==
    IF isYoutube(url) THEN "video/mp4"
    ELSE IF Contains(ToLower(url), <<".", "m", "p", "3">>) THEN "audio/mpeg"
    ELSE "audio/wav"

\* What openURL does for url on the platform goos: the command it starts and
\* the error it returns.  os is what the operating system answers: "ok",
\* "no-handler" (the xdg-mime query fails or names no application) or
\* "start-failed" (the process cannot be started).
GOOS == {"linux", "darwin", "windows"}
OSAnswers == {"ok", "no-handler", "start-failed"}

openURL(url, goos, os) ==
    IF (isAudio(url) \/ isYoutube(url)) /\ goos = "linux"
    THEN IF os = "no-handler"
         THEN [err |-> TRUE, cmd |-> "", mime |-> mimeType(url), url |-> url]
         ELSE [err |-> os = "start-failed", cmd |-> "gtk-launch",
               mime |-> mimeType(url), url |-> url]
    ELSE [err |-> os = "start-failed",
          cmd |-> IF goos = "windows" THEN "cmd /c start"
                  ELSE IF goos = "darwin" THEN "open" ELSE "xdg-open",
          mime |-> "", url |-> url]

(***************************************************************************)
(* The configured sources and what the network answers for each.  Source i *)
(* is one of three kinds (i % 3): a nitter mirror without a configured     *)
(* name, a podcast, a video channel.  Titles and URLs carry the digit of i *)
(* so that every entry of every feed is told apart.                        *)
(***************************************************************************)
Base(i) == 3 * ((i - 1) \div 3)

SourceOf(i) ==
    CASE i % 3 = 1 -> [Name |-> <<>>, URL |-> <<"h", "t", "t", "p", "s", ":", "/", "/", "n", "i", "t", "t", "e", "r", ".", "x", "/", "r">> \o <<Digits[i]>>]
      [] i % 3 = 2 -> [Name |-> <<"P", "o", "d">>, URL |-> <<"h", "t", "t", "p", "s", ":", "/", "/", "e", ".", "x", "/", "f">> \o <<Digits[i]>>]
      [] OTHER     -> [Name |-> <<"V", "i", "d">>, URL |-> <<"h", "t", "t", "p", ":", "/", "/", "y", ".", "x", "/", "f">> \o <<Digits[i]>>]

\* gofeed.Feed of source i: its declared title and its entries
RemoteFeed(i) ==
    CASE i % 3 = 1 ->
           [Title |-> <<"F", "d">> \o <<Digits[i]>>,
            Items |-> <<
              [Title |-> <<"T", "a">> \o <<Digits[i]>>,
               PublishedParsed |-> Time(41 + Base(i), "Feed"),
               Link |-> <<"h", "t", "t", "p", "s", ":", "/", "/", "n", "i", "t", "t", "e", "r", ".", "x", "/", "u", "/", "s", "#", "m">>,
               Enclosures |-> <<>>,
               Description |-> <<"D", "e">>, Content |-> <<"C", "x">>] >>]
      [] i % 3 = 2 ->
           [Title |-> <<"F", "e">> \o <<Digits[i]>>,
            Items |-> <<
              [Title |-> <<"P", "a">> \o <<Digits[i]>>,
               PublishedParsed |-> Time(41 + Base(i), "Feed"),
               Link |-> <<"h", "t", "t", "p", "s", ":", "/", "/", "e", ".", "x", "/", "p", "#", "m">>,
               Enclosures |-> << [Type |-> <<"i", "m", "a", "g", "e", "/", "p", "n", "g">>, URL |-> <<"h", "t", "t", "p", "s", ":", "/", "/", "e", ".", "x", "/", "i", ".", "p", "n", "g">>],
                                 [Type |-> <<"a", "u", "d", "i", "o", "/", "m", "p", "e", "g">>, URL |-> <<"h", "t", "t", "p", "s", ":", "/", "/", "e", ".", "x", "/", "a", ".", "M", "P", "3", "?", "t", "=", "1">>],
                                 [Type |-> <<"a", "u", "d", "i", "o", "/", "w", "a", "v">>, URL |-> <<"h", "t", "t", "p", "s", ":", "/", "/", "e", ".", "x", "/", "b", ".", "w", "a", "v">>] >>,
               Description |-> <<>>, Content |-> <<"C", "o">>],
              [Title |-> <<"A", "b">> \o <<Digits[i]>>,
               PublishedParsed |-> NilTime,
               Link |-> <<"e", ".", "x", "/", "q">>,
               Enclosures |-> <<>>,
               Description |-> <<>>, Content |-> <<>>] >>]
      [] OTHER ->
           [Title |-> <<"F", "f">> \o <<Digits[i]>>,
            Items |-> <<
              [Title |-> <<"Y", "t">> \o <<Digits[i]>>,
               PublishedParsed |-> Time(51 + Base(i), "Feed"),
               Link |-> <<"h", "t", "t", "p", "s", ":", "/", "/", "y", "o", "u", "t", "u", "b", "e", ".", "c", "o", "m", "/", "w">>,
               Enclosures |-> << [Type |-> <<"v", "i", "d", "e", "o", "/", "m", "p", "4">>, URL |-> <<"h", "t", "t", "p", "s", ":", "/", "/", "y", ".", "x", "/", "v", ".", "m", "p", "4">>] >>,
               Description |-> <<"D", "p">>, Content |-> <<>>] >>]

SourceIndex(url) == CHOOSE i \in 1..Len(Digits) : SourceOf(i).URL = url

\* gofeed.Parser.ParseURL, when it succeeds
ParseURL(url) == RemoteFeed(SourceIndex(url))

(***************************************************************************)
(* The body of the worker's loop over feed.Items                           *)
(***************************************************************************)
\* the URL of the first enclosure whose type begins with audio/, else ""
audioURL(item) ==
    LET hits == {k \in 1..Len(item.Enclosures) :
                    HasPrefix(item.Enclosures[k].Type, <<"a", "u", "d", "i", "o", "/">>)}
    IN  IF hits = {} THEN <<>>
        ELSE item.Enclosures[CHOOSE k \in hits : \A j \in hits : k <= j].URL

description(item) ==
    IF item.Description # <<>> THEN item.Description
    ELSE IF item.Content # <<>> THEN item.Content
    ELSE <<>>

\* pubDate that leaves the zero time.Time for an entry without a parsed time
pubDateZero(item, now) ==
    IF item.PublishedParsed # NilTime THEN UTC(item.PublishedParsed)
    ELSE Time(ZeroInstant, "UTC")

\* pubDate without the conversion of the parsed time to UTC
pubDateKeepsZone(item, now) ==
    IF item.PublishedParsed # NilTime THEN item.PublishedParsed ELSE UTC(now)

pubDate(item, now) ==
    IF item.PublishedParsed # NilTime THEN UTC(item.PublishedParsed) ELSE UTC(now)

feedTitle(source, feed) ==
    IF source.Name = <<>> THEN feed.Title ELSE source.Name

\* searchable as it would be if the feed title went in as it is written
searchableTitleAsIs(item, source, feed) ==
    ToLower(item.Title) \o <<" ">> \o feedTitle(source, feed)
        \o <<" ">> \o ToLower(description(item))

searchable(item, source, feed) ==
    ToLower(item.Title) \o <<" ">> \o ToLower(feedTitle(source, feed))
        \o <<" ">> \o ToLower(description(item))

\* the FeedItem built from one entry, time.Now() having answered now
NewFeedItem(item, source, feed, now) ==
    [Title |-> item.Title,
     Date |-> pubDate(item, now),
     FeedTitle |-> feedTitle(source, feed),
     Link |-> fixNitterLink(source.URL, item.Link),
     AudioURL |-> audioURL(item),
     Description |-> description(item),
     SearchText |-> searchable(item, source, feed)]

\* feedItems after the loop, nows[k] being time.Now() at the k-th entry
NewFeedItems(source, feed, nows) ==
    [k \in 1..Len(feed.Items) |-> NewFeedItem(feed.Items[k], source, feed, nows[k])]

(***************************************************************************)
(* State                                                                   *)
(***************************************************************************)
VARIABLES
    feedSources,    \* the argument of fetchFeeds
    jobs,           \* the jobs channel: its buffer
    jobsClosed,
    results,        \* the results channel: its buffer
    resultsClosed,
    pool,           \* the worker goroutines: a bag of [pc, source, feedItems, hit]
    mutex,          \* whether the mutex is locked
    items,          \* the shared slice of fetchFeeds, then items of main
    wg,             \* the WaitGroup's counter
    mainPc,         \* where the main goroutine is
    sent,           \* how many sources the send loop has sent
    progress,
    notes,          \* the error lines printed by the collector, in order
    closerPc,       \* where the goroutine that closes results is
    clock,          \* the instant time.Now() answers
    outcome,        \* history: what ParseURL answered for each source
    produced,       \* history: the feedItems built for each source
    unsorted,       \* history: items as the sort found it, until main goes on
    fetchErr,       \* the error fetchFeeds has returned to main, "unset" before
    searchQuery,
    inputText,      \* the text of searchInput
    inputLabel,     \* the label of searchInput
    filteredItems,
    focus,          \* the widget that has the focus
    selRow,         \* the row the table has selected, -1 when it has no rows
    lastLaunch,     \* what the last event started through openURL
    fnIn,           \* the arguments of a helper called on its own
    fnOut           \* what it returned

fetchVars ==
    <<feedSources, jobs, jobsClosed, results, resultsClosed, pool,
                   mutex, items, wg, mainPc, sent, progress, notes, closerPc,
      clock, outcome, produced, unsorted, fetchErr>>
uiVars == <<searchQuery, inputText, inputLabel, filteredItems, focus, selRow, lastLaunch>>
fnVars == <<fnIn, fnOut>>
vars == <<fetchVars, uiVars, fnVars>>

NoSource == [Name |-> <<>>, URL |-> <<>>]
\* a worker goroutine waiting in `range jobs`, and one that has returned
\* The field hit is history: whether the last fetch of this worker failed.
Idle == [pc |-> "recv", source |-> NoSource, feedItems |-> <<>>, hit |-> FALSE]
\* the instant the program starts at, and the last one the model lets time.Now() answer
StartClock == 2 * HoursPerDay + 2
LastClock == StartClock + MaxTicks
\* printed: whether the handler printed "Error opening browser:"
NoLaunch == [err |-> FALSE, cmd |-> "none", mime |-> "", url |-> <<>>, printed |-> FALSE]
NoCall == [fn |-> "none"]

\* len(feedSources): the capacity of both channels
S == Len(feedSources)

InitUI ==
    /\ searchQuery = <<>>
    /\ inputText = <<>>
    /\ inputLabel = <<>>
    /\ filteredItems = <<>>
    /\ focus = "none"
    /\ selRow = -1
    /\ lastLaunch = NoLaunch

InitFn ==
    /\ fnIn = NoCall
    /\ fnOut = NoCall

\* fetchFeeds has made its channels and started its workers
Init ==
    /\ \E n \in 0..MaxSources : feedSources = [i \in 1..n |-> SourceOf(i)]
    /\ jobs = <<>>
    /\ jobsClosed = FALSE
    /\ results = <<>>
    /\ resultsClosed = FALSE
    /\ pool = [r \in {Idle} |-> workers]
    /\ mutex = FALSE
    /\ items = <<>>
    /\ wg = workers
    /\ mainPc = "send"
    /\ sent = 0
    /\ progress = 0
    /\ notes = <<>>
    /\ closerPc = "unborn"
    /\ clock = StartClock
    /\ outcome = [i \in 1..MaxSources |-> "pending"]
    /\ produced = [i \in 1..MaxSources |-> <<>>]
    /\ unsorted = <<>>
    /\ fetchErr = "unset"
    /\ InitUI
    /\ InitFn

(***************************************************************************)
(* fetchFeeds: the main goroutine                                          *)
(***************************************************************************)
\* jobs <- source
MainSendJob ==
    /\ mainPc = "send"
    /\ sent < S
    /\ Len(jobs) < S
    /\ jobs' = Append(jobs, feedSources[sent + 1])
    /\ sent' = sent + 1
    /\ UNCHANGED <<feedSources, jobsClosed, results, resultsClosed, pool,
                   mutex, items, wg, mainPc, progress, notes, closerPc,
                   clock, outcome, produced, unsorted, fetchErr, uiVars, fnVars>>

\* MainCloseJobs without the close
MainCloseJobsForgotten ==
    /\ mainPc = "send"
    /\ sent = S
    /\ mainPc' = "go"
    /\ UNCHANGED <<feedSources, jobs, jobsClosed, results, resultsClosed, pool,
                   mutex, items, wg, sent, progress, notes, closerPc,
                   clock, outcome, produced, unsorted, fetchErr, uiVars, fnVars>>

\* close(jobs)
MainCloseJobs ==
    /\ mainPc = "send"
    /\ sent = S
    /\ jobsClosed' = TRUE
    /\ mainPc' = "go"
    /\ UNCHANGED <<feedSources, jobs, results, resultsClosed, pool,
                   mutex, items, wg, sent, progress, notes, closerPc,
                   clock, outcome, produced, unsorted, fetchErr, uiVars, fnVars>>

\* go func() { wg.Wait(); close(results) }()
MainGoCloser ==
    /\ mainPc = "go"
    /\ closerPc' = "wait"
    /\ mainPc' = "collect"
    /\ UNCHANGED <<feedSources, jobs, jobsClosed, results, resultsClosed, pool,
                   mutex, items, wg, sent, progress, notes,
                   clock, outcome, produced, unsorted, fetchErr, uiVars, fnVars>>

\* MainCollect with progress++ inside `if err != nil`'s else
MainCollectCountsNil ==
    /\ mainPc = "collect"
    /\ results # <<>>
    /\ results' = Tail(results)
    /\ progress' = IF Head(results).err THEN progress ELSE progress + 1
    /\ notes' = IF Head(results).err THEN Append(notes, Head(results).url) ELSE notes
    /\ UNCHANGED <<feedSources, jobs, jobsClosed, resultsClosed, pool,
                   mutex, items, wg, mainPc, sent, closerPc,
                   clock, outcome, produced, unsorted, fetchErr, uiVars, fnVars>>

\* one round of `for err := range results`
MainCollect ==
    /\ mainPc = "collect"
    /\ results # <<>>
    /\ results' = Tail(results)
    /\ progress' = progress + 1
    /\ notes' = IF Head(results).err THEN Append(notes, Head(results).url) ELSE notes
    /\ UNCHANGED <<feedSources, jobs, jobsClosed, resultsClosed, pool,
                   mutex, items, wg, mainPc, sent, closerPc,
                   clock, outcome, produced, unsorted, fetchErr, uiVars, fnVars>>

\* the range loop ends: results is closed and empty
MainCollectEnd ==
    /\ mainPc = "collect"
    /\ results = <<>>
    /\ resultsClosed
    /\ mainPc' = "sort"
    /\ UNCHANGED <<feedSources, jobs, jobsClosed, results, resultsClosed, pool,
                   mutex, items, wg, sent, progress, notes, closerPc,
                   clock, outcome, produced, unsorted, fetchErr, uiVars, fnVars>>

\* s without its i-th element
RemoveAt(s, i) == SubSeq(s, 1, i - 1) \o SubSeq(s, i + 1, Len(s))

\* less with Before in the place of After
lessBefore(a, b) == After(b.Date, a.Date)

\* less of the sort.Slice call
less(a, b) == After(a.Date, b.Date)

\* sort.Slice is not stable: every arrangement of s that less leaves in order
RECURSIVE SortSlice(_)
SortSlice(s) ==
    IF s = <<>> THEN {<<>>}
    ELSE UNION { {<<s[i]>> \o t : t \in SortSlice(RemoveAt(s, i))} :
                 i \in {i \in 1..Len(s) : \A j \in 1..Len(s) : ~less(s[j], s[i])} }

\* sort.Slice(items, ...); return items, nil
\* MainSortReturn as it would be if a failed source made fetchFeeds fail
MainSortReturnFailing ==
    /\ mainPc = "sort"
    /\ items' \in SortSlice(items)
    /\ mainPc' = "returned"
    /\ unsorted' = items
    /\ fetchErr' = IF notes = <<>> THEN "nil" ELSE "error"
    /\ UNCHANGED <<feedSources, jobs, jobsClosed, results, resultsClosed, pool,
                   mutex, wg, sent, progress, notes, closerPc,
                   clock, outcome, produced, uiVars, fnVars>>

MainSortReturn ==
    /\ mainPc = "sort"
    /\ items' \in SortSlice(items)
    /\ mainPc' = "returned"
    /\ unsorted' = items
    /\ fetchErr' = "nil"
    /\ UNCHANGED <<feedSources, jobs, jobsClosed, results, resultsClosed, pool,
                   mutex, wg, sent, progress, notes, closerPc,
                   clock, outcome, produced, uiVars, fnVars>>

(***************************************************************************)
(* fetchFeeds: the goroutine that closes results                           *)
(***************************************************************************)
\* CloserWait as it would be without wg.Wait()
CloserWaitForNone ==
    /\ closerPc = "wait"
    /\ closerPc' = "close"
    /\ UNCHANGED <<feedSources, jobs, jobsClosed, results, resultsClosed, pool,
                   mutex, items, wg, mainPc, sent, progress, notes,
                   clock, outcome, produced, unsorted, fetchErr, uiVars, fnVars>>

\* wg.Wait() returns
CloserWait ==
    /\ closerPc = "wait"
    /\ wg = 0
    /\ closerPc' = "close"
    /\ UNCHANGED <<feedSources, jobs, jobsClosed, results, resultsClosed, pool,
                   mutex, items, wg, mainPc, sent, progress, notes,
                   clock, outcome, produced, unsorted, fetchErr, uiVars, fnVars>>

\* close(results)
CloserClose ==
    /\ closerPc = "close"
    /\ resultsClosed' = TRUE
    /\ closerPc' = "done"
    /\ UNCHANGED <<feedSources, jobs, jobsClosed, results, pool,
                   mutex, items, wg, mainPc, sent, progress, notes,
                   clock, outcome, produced, unsorted, fetchErr, uiVars, fnVars>>

(***************************************************************************)
(* fetchFeeds: the workers.  The goroutines are anonymous and run the same *)
(* code, so the pool is the bag of their states; r is the state of the     *)
(* worker that takes the step and the second argument of Becomes the state *)
(* it is in afterwards.                                                    *)
(***************************************************************************)
Becomes(r, r2) == pool' = (pool (-) SetToBag({r})) (+) SetToBag({r2})

\* the workers that are at pc
At(pc) == {r \in BagToSet(pool) : r.pc = pc}

\* `for source := range jobs` receives a source
WorkerRecv(r) ==
    /\ r.pc = "recv"
    /\ jobs # <<>>
    /\ Becomes(r, [r EXCEPT !.pc = "fetch", !.source = Head(jobs), !.feedItems = <<>>])
    /\ jobs' = Tail(jobs)
    /\ UNCHANGED <<feedSources, jobsClosed, results, resultsClosed,
                   mutex, items, wg, mainPc, sent, progress, notes, closerPc,
                   clock, outcome, produced, unsorted, fetchErr, uiVars, fnVars>>

\* the range loop ends: jobs is closed and empty; the deferred wg.Done() runs
WorkerExit(r) ==
    /\ r.pc = "recv"
    /\ jobs = <<>>
    /\ jobsClosed
    /\ Becomes(r, [r EXCEPT !.pc = "done", !.hit = FALSE])
    /\ wg' = wg - 1
    /\ UNCHANGED <<feedSources, jobs, jobsClosed, results, resultsClosed,
                   mutex, items, mainPc, sent, progress, notes, closerPc,
                   clock, outcome, produced, unsorted, fetchErr, uiVars, fnVars>>

\* WorkerParseFail as it would be if the worker tried the source again
WorkerParseFailRetry(r) ==
    /\ r.pc = "fetch"
    /\ Becomes(r, [r EXCEPT !.hit = TRUE])
    /\ outcome' = [outcome EXCEPT ![SourceIndex(r.source.URL)] = "failed"]
    /\ UNCHANGED <<feedSources, jobs, jobsClosed, results, resultsClosed,
                   mutex, items, wg, mainPc, sent, progress, notes,
                   closerPc, clock, produced, unsorted, fetchErr, uiVars, fnVars>>

\* fp.ParseURL returns an error
WorkerParseFail(r) ==
    /\ r.pc = "fetch"
    /\ Becomes(r, [r EXCEPT !.pc = "sendErr", !.hit = TRUE])
    /\ outcome' = [outcome EXCEPT ![SourceIndex(r.source.URL)] = "failed"]
    /\ UNCHANGED <<feedSources, jobs, jobsClosed, results, resultsClosed,
                   mutex, items, wg, mainPc, sent, progress, notes,
                   closerPc, clock, produced, unsorted, fetchErr, uiVars, fnVars>>

\* The instants the successive calls of time.Now() in the loop over the
\* entries of feed may answer: they never go back.  The answer is used only
\* for an entry without a parsed time, and the clock of the model moves on
\* only there.
NowSeqs(feed) ==
    {f \in [1..Len(feed.Items) -> clock..LastClock] :
        \A k \in 1..Len(feed.Items) :
            LET before == IF k = 1 THEN clock ELSE f[k - 1]
            IN  IF feed.Items[k].PublishedParsed = NilTime
                THEN before <= f[k] ELSE before = f[k]}

\* fp.ParseURL returns the feed, and the loop over feed.Items builds feedItems
WorkerParseOK(r) ==
    /\ r.pc = "fetch"
    /\ LET feed == ParseURL(r.source.URL)
           n == Len(feed.Items)
       IN  \E nows \in NowSeqs(feed) :
             LET built == NewFeedItems(r.source, feed,
                                       [k \in 1..n |-> Time(nows[k], "Local")])
             IN  /\ Becomes(r, [r EXCEPT !.pc = "lock", !.feedItems = built])
                 /\ produced' = [produced EXCEPT ![SourceIndex(r.source.URL)] = built]
                 /\ clock' = IF n = 0 THEN clock ELSE nows[n]
    /\ outcome' = [outcome EXCEPT ![SourceIndex(r.source.URL)] = "ok"]
    /\ UNCHANGED <<feedSources, jobs, jobsClosed, results, resultsClosed,
                   mutex, items, wg, mainPc, sent, progress, notes,
                   closerPc, unsorted, fetchErr, uiVars, fnVars>>

\* WorkerSendErr with return in the place of continue
WorkerSendErrReturn(r) ==
    /\ r.pc = "sendErr"
    /\ Len(results) < S
    /\ ~resultsClosed
    /\ results' = Append(results, [err |-> TRUE, url |-> r.source.URL])
    /\ Becomes(r, [Idle EXCEPT !.pc = "done"])
    /\ wg' = wg - 1
    /\ UNCHANGED <<feedSources, jobs, jobsClosed, resultsClosed,
                   mutex, items, mainPc, sent, progress, notes,
                   closerPc, clock, outcome, produced, unsorted, fetchErr, uiVars, fnVars>>

\* WorkerSendErr without the continue: the worker goes on to the append
WorkerSendErrGoesOn(r) ==
    /\ r.pc = "sendErr"
    /\ Len(results) < S
    /\ ~resultsClosed
    /\ results' = Append(results, [err |-> TRUE, url |-> r.source.URL])
    /\ Becomes(r, [r EXCEPT !.pc = "lock", !.feedItems = <<>>])
    /\ UNCHANGED <<feedSources, jobs, jobsClosed, resultsClosed,
                   mutex, items, wg, mainPc, sent, progress, notes,
                   closerPc, clock, outcome, produced, unsorted, fetchErr, uiVars, fnVars>>

\* results <- fmt.Errorf("error parsing feed %s: %v", source.URL, err); continue
WorkerSendErr(r) ==
    /\ r.pc = "sendErr"
    /\ Len(results) < S
    /\ ~resultsClosed
    /\ results' = Append(results, [err |-> TRUE, url |-> r.source.URL])
    /\ Becomes(r, [r EXCEPT !.pc = "recv", !.source = NoSource, !.feedItems = <<>>])
    /\ UNCHANGED <<feedSources, jobs, jobsClosed, resultsClosed,
                   mutex, items, wg, mainPc, sent, progress, notes,
                   closerPc, clock, outcome, produced, unsorted, fetchErr, uiVars, fnVars>>

\* WorkerLock as it would be if Lock did not wait
WorkerLockNoWait(r) ==
    /\ r.pc = "lock"
    /\ mutex' = TRUE
    /\ Becomes(r, [r EXCEPT !.pc = "append"])
    /\ UNCHANGED <<feedSources, jobs, jobsClosed, results, resultsClosed,
                   items, wg, mainPc, sent, progress, notes,
                   closerPc, clock, outcome, produced, unsorted, fetchErr, uiVars, fnVars>>

\* mutex.Lock()
WorkerLock(r) ==
    /\ r.pc = "lock"
    /\ ~mutex
    /\ mutex' = TRUE
    /\ Becomes(r, [r EXCEPT !.pc = "append"])
    /\ UNCHANGED <<feedSources, jobs, jobsClosed, results, resultsClosed,
                   items, wg, mainPc, sent, progress, notes,
                   closerPc, clock, outcome, produced, unsorted, fetchErr, uiVars, fnVars>>

\* items = append(items, feedItems...)
WorkerAppend(r) ==
    /\ r.pc = "append"
    /\ items' = items \o r.feedItems
    /\ Becomes(r, [r EXCEPT !.pc = "unlock"])
    /\ UNCHANGED <<feedSources, jobs, jobsClosed, results, resultsClosed,
                   mutex, wg, mainPc, sent, progress, notes,
                   closerPc, clock, outcome, produced, unsorted, fetchErr, uiVars, fnVars>>

\* mutex.Unlock()
WorkerUnlock(r) ==
    /\ r.pc = "unlock"
    /\ mutex' = FALSE
    /\ Becomes(r, [r EXCEPT !.pc = "sendNil"])
    /\ UNCHANGED <<feedSources, jobs, jobsClosed, results, resultsClosed,
                   items, wg, mainPc, sent, progress, notes,
                   closerPc, clock, outcome, produced, unsorted, fetchErr, uiVars, fnVars>>

\* results <- nil
WorkerSendNil(r) ==
    /\ r.pc = "sendNil"
    /\ Len(results) < S
    /\ ~resultsClosed
    /\ results' = Append(results, [err |-> FALSE, url |-> <<>>])
    /\ Becomes(r, Idle)
    /\ UNCHANGED <<feedSources, jobs, jobsClosed, resultsClosed,
                   mutex, items, wg, mainPc, sent, progress, notes,
                   closerPc, clock, outcome, produced, unsorted, fetchErr, uiVars, fnVars>>

Main ==
    \/ MainSendJob
    \/ MainCloseJobs
    \/ MainGoCloser
    \/ MainCollect
    \/ MainCollectEnd
    \/ MainSortReturn

Closer ==
    \/ CloserWait
    \/ CloserClose

FetchNext ==
    \/ Main
    \/ Closer
    \/ \E r \in BagToSet(pool) : WorkerRecv(r)
    \/ \E r \in BagToSet(pool) : WorkerExit(r)
    \/ \E r \in BagToSet(pool) : WorkerParseFail(r)
    \/ \E r \in BagToSet(pool) : WorkerParseOK(r)
    \/ \E r \in BagToSet(pool) : WorkerSendErr(r)
    \/ \E r \in BagToSet(pool) : WorkerLock(r)
    \/ \E r \in BagToSet(pool) : WorkerAppend(r)
    \/ \E r \in BagToSet(pool) : WorkerUnlock(r)
    \/ \E r \in BagToSet(pool) : WorkerSendNil(r)

(***************************************************************************)
(* main after fetchFeeds has returned: the search session.  The closures   *)
(* of main are operators on the record u of the variables they share; the  *)
(* parameter items is main's items.  The tview calls are modelled by what  *)
(* they do to that record: InputField.SetText stores the text and calls    *)
(* the changed handler, Table.Clear keeps the selection, Table.Select sets *)
(* it.  The preview pane and the table cells are drawn from the record and *)
(* hold no state of their own.                                             *)
(***************************************************************************)
QueryChars == {"a", "P", "d"}
Texts == UNION {[1..n -> QueryChars] : n \in 0..MaxQueryLen}

\* updateTable(itemsToShow)
updateTable(u, itemsToShow) ==
    [u EXCEPT !.selRow = IF Len(itemsToShow) > 0 THEN 0 ELSE @]

\* the loop of the changed handler over items
Matching(itemsAll, query) ==
    SelectSeq(itemsAll, LAMBDA item : Contains(item.SearchText, query))

\* changedFunc without strings.ToLower
changedFuncNoLower(u, itemsAll, text) ==
    LET q == text
        u1 == [u EXCEPT !.searchQuery = q,
                        !.filteredItems = IF q = <<>> THEN itemsAll
                                          ELSE Matching(itemsAll, q)]
    IN  updateTable(u1, u1.filteredItems)

\* changedFunc with its loop over filteredItems in the place of items
changedFuncNarrowing(u, itemsAll, text) ==
    LET q == ToLower(text)
        u1 == [u EXCEPT !.searchQuery = q,
                        !.filteredItems = IF q = <<>> THEN itemsAll
                                          ELSE Matching(u.filteredItems, q)]
    IN  updateTable(u1, u1.filteredItems)

\* the handler given to searchInput.SetChangedFunc
changedFunc(u, itemsAll, text) ==
    LET q == ToLower(text)
        u1 == [u EXCEPT !.searchQuery = q,
                        !.filteredItems = IF q = <<>> THEN itemsAll
                                          ELSE Matching(itemsAll, q)]
    IN  updateTable(u1, u1.filteredItems)

\* searchInput.SetText(text)
SetText(u, itemsAll, text) ==
    changedFunc([u EXCEPT !.inputText = text], itemsAll, text)

\* the lines both Escape handlers share: newseum.go 116-123 and 170-177
escapeReset(u, itemsAll) ==
    LET u1 == [u EXCEPT !.searchQuery = <<>>]
        u2 == SetText(u1, itemsAll, <<>>)
        u3 == [u2 EXCEPT !.inputLabel = <<>>, !.filteredItems = itemsAll]
        u4 == updateTable(u3, u3.filteredItems)
    IN  [u4 EXCEPT !.selRow = 0]

\* the handler given to searchInput.SetDoneFunc
doneFunc(u, itemsAll, key) ==
    IF key = "Escape" THEN [escapeReset(u, itemsAll) EXCEPT !.focus = "table"]
    ELSE IF key = "Enter" THEN [u EXCEPT !.focus = "table"]
    ELSE u

TableKeys == {"Escape", "q", "g", "G", "/", "j", "k", "Up", "Down"}

\* whether the input capture of the table swallows the key (returns nil)
captured(u, key) ==
    \/ u.selRow = 0 /\ key \in {"Up", "k"}
    \/ u.selRow = Len(u.filteredItems) - 1 /\ key \in {"Down", "j"}
    \/ key \in {"q", "g", "G", "/"}

\* the state after the input capture of the table
inputCapture(u, itemsAll, key) ==
    IF u.selRow = 0 /\ key \in {"Up", "k"} THEN u
    ELSE IF u.selRow = Len(u.filteredItems) - 1 /\ key \in {"Down", "j"} THEN u
    ELSE LET u1 == IF key = "Escape" THEN escapeReset(u, itemsAll) ELSE u
         IN  CASE key = "q" -> [u1 EXCEPT !.focus = "stopped"]
               [] key = "g" -> IF Len(u1.filteredItems) > 0
                               THEN [u1 EXCEPT !.selRow = 0] ELSE u1
               [] key = "G" -> IF Len(u1.filteredItems) > 0
                               THEN [u1 EXCEPT !.selRow = Len(u1.filteredItems) - 1]
                               ELSE u1
               [] key = "/" ->
                    LET u2 == SetText([u1 EXCEPT !.inputLabel = <<"/">>], itemsAll, <<>>)
                    IN  [u2 EXCEPT !.searchQuery = <<>>, !.focus = "search"]
               [] OTHER -> u1

\* tview's Table on a movement key the capture lets through
tableMove(u, key) ==
    LET n == Len(u.filteredItems)
    IN  IF n = 0 THEN u
        ELSE IF key \in {"Down", "j"}
        THEN [u EXCEPT !.selRow = IF @ + 1 < n THEN @ + 1 ELSE n - 1]
        ELSE IF key \in {"Up", "k"}
        THEN [u EXCEPT !.selRow = IF @ - 1 < 0 THEN 0 ELSE IF @ - 1 < n THEN @ - 1 ELSE n - 1]
        ELSE u

\* the target the handler given to table.SetSelectedFunc opens for row
\* target as it would be if it took the link whenever there is one
targetLinkFirst(u, row) ==
    IF u.filteredItems[row + 1].Link # <<>>
    THEN u.filteredItems[row + 1].Link
    ELSE u.filteredItems[row + 1].AudioURL

target(u, row) ==
    IF u.filteredItems[row + 1].AudioURL # <<>>
    THEN u.filteredItems[row + 1].AudioURL
    ELSE u.filteredItems[row + 1].Link

\* the handler given to table.SetSelectedFunc, called for row
selectedFunc(u, row, goos, os) ==
    IF row >= 0 /\ row < Len(u.filteredItems)
    THEN LET r == openURL(target(u, row), goos, os)
         IN  [err |-> r.err, cmd |-> r.cmd, mime |-> r.mime, url |-> r.url,
              printed |-> r.err]
    ELSE NoLaunch

ui ==
    [searchQuery |-> searchQuery, inputText |-> inputText, inputLabel |-> inputLabel,
     filteredItems |-> filteredItems, focus |-> focus, selRow |-> selRow]

SetUI(u) ==
    /\ searchQuery' = u.searchQuery
    /\ inputText' = u.inputText
    /\ inputLabel' = u.inputLabel
    /\ filteredItems' = u.filteredItems
    /\ focus' = u.focus
    /\ selRow' = u.selRow

\* main, lines 52-106 and 260: filteredItems := items, the first updateTable,
\* and app.Run with the focus on the table
MainStartUI ==
    /\ mainPc = "returned"
    /\ fetchErr = "nil"
    /\ mainPc' = "ui"
    /\ SetUI(updateTable([ui EXCEPT !.filteredItems = items, !.focus = "table",
                                    !.selRow = 0], items))
    /\ lastLaunch' = NoLaunch
    /\ unsorted' = <<>>
    /\ UNCHANGED <<feedSources, jobs, jobsClosed, results, resultsClosed, pool,
                   mutex, items, wg, sent, progress, notes, closerPc,
                   clock, outcome, produced, fetchErr, fnVars>>

\* InputChanged as it would be if the handler filtered items in place
InputChangedInPlace(text) ==
    /\ mainPc = "ui"
    /\ focus = "search"
    /\ text # inputText
    /\ SetUI(changedFunc([ui EXCEPT !.inputText = text], items, text))
    /\ items' = changedFunc([ui EXCEPT !.inputText = text], items, text).filteredItems
    /\ lastLaunch' = NoLaunch
    /\ UNCHANGED <<feedSources, jobs, jobsClosed, results, resultsClosed, pool,
                   mutex, wg, mainPc, sent, progress, notes, closerPc,
                   clock, outcome, produced, unsorted, fetchErr, fnVars>>

\* the user edits the text of the search field
InputChanged(text) ==
    /\ mainPc = "ui"
    /\ focus = "search"
    /\ text # inputText
    /\ SetUI(changedFunc([ui EXCEPT !.inputText = text], items, text))
    /\ lastLaunch' = NoLaunch
    /\ UNCHANGED <<fetchVars, fnVars>>

\* the user presses Escape or Enter in the search field
InputDone(key) ==
    /\ mainPc = "ui"
    /\ focus = "search"
    /\ SetUI(doneFunc(ui, items, key))
    /\ lastLaunch' = NoLaunch
    /\ UNCHANGED <<fetchVars, fnVars>>

\* the user presses a key in the table
TableKey(key) ==
    /\ mainPc = "ui"
    /\ focus = "table"
    /\ LET u1 == inputCapture(ui, items, key)
           u2 == IF captured(ui, key) THEN u1 ELSE tableMove(u1, key)
       IN  /\ SetUI(u2)
           /\ mainPc' = IF u2.focus = "stopped" THEN "exit" ELSE mainPc
    /\ lastLaunch' = NoLaunch
    /\ UNCHANGED <<feedSources, jobs, jobsClosed, results, resultsClosed, pool,
                   mutex, items, wg, sent, progress, notes, closerPc,
                   clock, outcome, produced, unsorted, fetchErr, fnVars>>

\* the user presses Enter in the table: the handler given to SetSelectedFunc
\* runs for the selected row, on the platform goos where the system answers os
TableSelected(goos, os) ==
    /\ mainPc = "ui"
    /\ focus = "table"
    /\ lastLaunch' = selectedFunc(ui, selRow, goos, os)
    /\ UNCHANGED <<fetchVars, searchQuery, inputText, inputLabel, filteredItems,
                   focus, selRow, fnVars>>

UINext ==
    \/ MainStartUI
    \/ \E text \in Texts : InputChanged(text)
    \/ \E key \in {"Escape", "Enter"} : InputDone(key)
    \/ \E key \in TableKeys : TableKey(key)
    \/ \E goos \in GOOS, os \in OSAnswers : TableSelected(goos, os)

Next ==
    \/ FetchNext
    \/ UINext

Spec == Init /\ [][Next]_vars

\* The Go scheduler runs every goroutine that can take a step, and ParseURL
\* returns: some step of fetchFeeds is taken as long as one can be.  Nothing
\* is assumed of the user.
FairSpec == Spec /\ WF_vars(FetchNext)

(***************************************************************************)
(* The helpers formatDate, fixNitterLink and openURL called on their own,  *)
(* on arguments of every shape within the bounds below.                    *)
(***************************************************************************)
\* how many days before and after `now` the dates given to formatDate lie
SpanDays == 32
\* how long the text after the host of an entry link gets
MaxRestLen == 3

\* the instants `now`: March 15 at 14:00 and at 01:00, and March 1 at 03:00,
\* of year 1 on the local clock
FormatNows == {Time(1771, "Local"), Time(1758, "Local"), Time(1424, "Local")}
FormatDates(now) ==
    {Time(t, "UTC") :
        t \in (now.t - SpanDays * HoursPerDay)..(now.t + SpanDays * HoursPerDay)}
        \cup {Time(ZeroInstant, "UTC")}
FormatInputs ==
    {[fn |-> "formatDate", date |-> d, now |-> now] :
        now \in FormatNows, d \in UNION {FormatDates(n) : n \in FormatNows}}

FeedURLs == {<<"h", "t", "t", "p", "s", ":", "/", "/", "n", "i", "t", "t", "e", "r", ".", "x", "/", "r">>, <<"h", "t", "t", "p", "s", ":", "/", "/", "e", ".", "x", "/", "f">>, <<"h", "t", "t", "p", ":", "/", "/", "y", ".", "x", "/", "n", "i", "t", "t", "e", "r", ".", "r", "s", "s">>}
RestChars == {"/", "#", "u", "?"}
Rests == UNION {[1..k -> RestChars] : k \in 0..MaxRestLen}
LinkTexts ==
    {pre \o scheme \o host \o rest :
        pre \in {<<>>, <<"x", " ">>},
        scheme \in {<<"h", "t", "t", "p", "s", ":", "/", "/">>, <<"h", "t", "t", "p", ":", "/", "/">>, <<"f", "t", "p", ":", "/", "/">>, <<>>},
        host \in {<<"m", ".", "x">>, <<>>},
        rest \in Rests}
LinkInputs ==
    {[fn |-> "fixNitterLink", feedURL |-> f, itemLink |-> l] :
        f \in FeedURLs, l \in LinkTexts}

URLHosts == {<<"e", ".", "x">>, <<"y", "o", "u", "t", "u", "b", "e", ".", "c", "o", "m">>, <<"m", ".", "Y", "o", "u", "T", "u", "b", "e", ".", "c", "o", "m">>, <<"y", "o", "u", "t", "u", ".", "b", "e">>}
URLPaths == {<<"/", "a", ".", "m", "p", "3">>, <<"/", "a", ".", "M", "P", "3">>, <<"/", "a", ".", "w", "a", "v">>, <<"/", "a", ".", "h", "t", "m", "l">>, <<"/", "w">>, <<>>}
URLQueries == {<<>>, <<"?", "t", "=", "1">>, <<"?", "u", "=", "y", "o", "u", "t", "u", ".", "b", "e">>, <<"?", "f", "=", "b", ".", "m", "p", "3">>}
URLFragments == {<<>>, <<"#", "m">>}
URLInputs ==
    {[fn |-> "openURL", host |-> h, path |-> p, query |-> q, fragment |-> f,
      url |-> <<"h", "t", "t", "p", "s", ":", "/", "/">> \o h \o p \o q \o f, goos |-> g, os |-> o] :
        h \in URLHosts, p \in URLPaths, q \in URLQueries, f \in URLFragments,
        g \in GOOS, o \in OSAnswers}

InitHelpers ==
    /\ feedSources = <<>>
    /\ jobs = <<>>
    /\ jobsClosed = FALSE
    /\ results = <<>>
    /\ resultsClosed = FALSE
    /\ pool = EmptyBag
    /\ mutex = FALSE
    /\ items = <<>>
    /\ wg = 0
    /\ mainPc = "none"
    /\ sent = 0
    /\ progress = 0
    /\ notes = <<>>
    /\ closerPc = "unborn"
    /\ clock = StartClock
    /\ outcome = [i \in 1..MaxSources |-> "pending"]
    /\ produced = [i \in 1..MaxSources |-> <<>>]
    /\ unsorted = <<>>
    /\ fetchErr = "unset"
    /\ InitUI
    /\ fnIn \in FormatInputs \cup LinkInputs \cup URLInputs
    /\ fnOut = NoCall

CallFormatDate ==
    /\ fnIn.fn = "formatDate"
    /\ fnOut = NoCall
    /\ fnOut' = [fn |-> "formatDate", out |-> formatDate(fnIn.date, fnIn.now)]
    /\ UNCHANGED <<fetchVars, uiVars, fnIn>>

CallFixNitterLink ==
    /\ fnIn.fn = "fixNitterLink"
    /\ fnOut = NoCall
    /\ fnOut' = [fn |-> "fixNitterLink",
                 out |-> fixNitterLink(fnIn.feedURL, fnIn.itemLink)]
    /\ UNCHANGED <<fetchVars, uiVars, fnIn>>

CallOpenURL ==
    /\ fnIn.fn = "openURL"
    /\ fnOut = NoCall
    /\ fnOut' = [fn |-> "openURL", out |-> openURL(fnIn.url, fnIn.goos, fnIn.os)]
    /\ UNCHANGED <<fetchVars, uiVars, fnIn>>

NextHelpers ==
    \/ CallFormatDate
    \/ CallFixNitterLink
    \/ CallOpenURL

SpecHelpers == InitHelpers /\ [][NextHelpers]_vars

(***************************************************************************)
(* Properties                                                              *)
(***************************************************************************)
\* fetchFeeds has returned to main
Returned == mainPc \in {"returned", "ui", "exit"}

Elems(seq) == {seq[k] : k \in DOMAIN seq}
Count(seq, x) == Cardinality({k \in DOMAIN seq : seq[k] = x})
\* the titles of the entries source i serves
EntryTitles(i) == {RemoteFeed(i).Items[k].Title : k \in DOMAIN RemoteFeed(i).Items}
Failed == {i \in 1..S : outcome[i] = "failed"}
Succeeded == {i \in 1..S : outcome[i] = "ok"}

\* C1 (partial-failure isolation): once fetchFeeds has returned, items holds
\* every item built for each source that parsed and no item of a source that
\* failed, one error line was printed for each failed source and none for any
\* other; and a worker leaves its loop only when jobs is closed and drained,
\* so a failed fetch does not end the worker that hit it.
C1_PartialFailureIsolation ==
    /\ Returned =>
         /\ \A i \in Succeeded : \A k \in DOMAIN produced[i] : produced[i][k] \in Elems(items)
         /\ \A i \in Failed : \A x \in Elems(items) : x.Title \notin EntryTitles(i)
         /\ \A i \in 1..S :
              Count(notes, SourceOf(i).URL) = IF i \in Failed THEN 1 ELSE 0
         /\ Len(notes) = Cardinality(Failed)
    /\ \A r \in BagToSet(pool) : r.pc = "done" => jobsClosed /\ jobs = <<>>

\* of three sources one has failed and two have parsed, and the worker that
\* hit the failure has gone on to the last of them and has appended its items
C1_Witness ==
    /\ S = 3
    /\ Cardinality(Failed) = 1
    /\ Cardinality(Succeeded) = 2
    /\ \E r \in BagToSet(pool) :
          /\ r.hit
          /\ r.pc = "sendNil"
          /\ r.feedItems # <<>>
          /\ \A k \in DOMAIN r.feedItems : r.feedItems[k] \in Elems(items)

\* every worker has returned and results has been closed
AllExited ==
    /\ wg = 0
    /\ \A r \in BagToSet(pool) : r.pc = "done"
    /\ closerPc = "done"

\* C2 (completion): fetchFeeds returns in the end, whatever the number of
\* sources and whichever of them fail, and when it has returned every worker
\* has exited.
C2_Completion ==
    /\ <>(mainPc = "returned")
    /\ [](Returned => AllExited)

\* fetchFeeds has returned from three sources, of which some failed and some
\* parsed
C2_Witness ==
    /\ mainPc = "returned"
    /\ S = 3
    /\ Failed # {}
    /\ Succeeded # {}
    /\ AllExited

\* a step that leaves progress alone, or the collector's: one result is
\* received and progress grows by one
ProgressStep ==
    \/ progress' = progress
    \/ /\ progress' = progress + 1
       /\ mainPc = "collect"
       /\ mainPc' = "collect"
       /\ results # <<>>
       /\ results' = Tail(results)
       /\ pool' = pool

\* C3 (progress): progress starts at 0, changes only in the collector's loop
\* and there by one for each result received, never exceeds the number of
\* sources whose fetch has ended, and is len(feedSources) when fetchFeeds has
\* returned.
C3_Progress ==
    /\ progress = 0
    /\ [][ProgressStep]_vars
    /\ [](progress <= Cardinality(Failed \cup Succeeded))
    /\ [](Returned => progress = S)

\* the counter has reached 3 after failures and successes
C3_Witness ==
    /\ Returned
    /\ S = 3
    /\ progress = 3
    /\ Failed # {}
    /\ Succeeded # {}

\* sub is a literal substring of s
IsSubstring(sub, s) ==
    \E a \in 0..Len(s) : \E b \in a..Len(s) : SubSeq(s, a + 1, b) = sub

\* the positions of collection whose search text contains the lower-cased query
Kept(query, collection) ==
    {i \in 1..Len(collection) : IsSubstring(ToLower(query), collection[i].SearchText)}

\* the k-th smallest member of a set of numbers
Nth(K, k) == CHOOSE i \in K : Cardinality({j \in K : j < i}) = k - 1

\* view is collection restricted to the positions kept, in their order
IsFilterOf(view, query, collection) ==
    /\ Len(view) = Cardinality(Kept(query, collection))
    /\ \A k \in 1..Len(view) : view[k] = collection[Nth(Kept(query, collection), k)]

\* C4 (filter correctness): whenever the text of the search field changes, the
\* filtered view the handler leaves is the subsequence of items, in the order
\* of items, of exactly the items whose search text contains the lower-cased
\* text; for the empty text it is items.
C4_FilterCorrect ==
    [][inputText' # inputText =>
         /\ IsFilterOf(filteredItems', inputText', items')
         /\ inputText' = <<>> => filteredItems' = items']_vars

\* a query with a capital letter has kept two of at least three items
C4_Witness ==
    /\ mainPc = "ui"
    /\ inputText = <<"P">>
    /\ Len(filteredItems) = 2
    /\ Len(items) >= 3

\* C5 (session state): in the session, after every event, the query is the
\* lower-cased text of the search field and the filtered view is the filter
\* of items by that query, computed from items alone; it is items when the
\* query is empty.
C5_SessionState ==
    mainPc \in {"ui", "exit"} =>
        /\ searchQuery = ToLower(inputText)
        /\ IsFilterOf(filteredItems, searchQuery, items)
        /\ searchQuery = <<>> => filteredItems = items

\* back in the table with a two-letter query that keeps one item of several
C5_Witness ==
    /\ mainPc = "ui"
    /\ focus = "table"
    /\ searchQuery = <<"p", "a">>
    /\ Len(filteredItems) = 1
    /\ Len(items) >= 3

IsPermutation(a, b) ==
    /\ Len(a) = Len(b)
    /\ \A x \in Elems(a) \cup Elems(b) : Count(a, x) = Count(b, x)

DistinctDates(seq) ==
    \A i, j \in DOMAIN seq : i # j => seq[i].Date.t # seq[j].Date.t

StrictlyDescending(seq) ==
    \A k \in 1..(Len(seq) - 1) : seq[k].Date.t > seq[k + 1].Date.t

\* C6 (ordering): what fetchFeeds returns is a rearrangement of the items the
\* workers appended, and when their dates are pairwise distinct it is in
\* strictly descending order of date.
C6_Ordering ==
    mainPc = "returned" =>
        /\ IsPermutation(unsorted, items)
        /\ DistinctDates(items) => StrictlyDescending(items)

\* three items of distinct dates that the workers had appended in another order
C6_Witness ==
    /\ mainPc = "returned"
    /\ Len(items) >= 3
    /\ DistinctDates(items)
    /\ unsorted # items

\* the titles of the entries that come without a parsed publish time
UndatedTitles ==
    UNION { {RemoteFeed(i).Items[k].Title : k \in {k \in DOMAIN RemoteFeed(i).Items :
                RemoteFeed(i).Items[k].PublishedParsed = NilTime}} : i \in 1..MaxSources }

Undated(seq) == {k \in DOMAIN seq : seq[k].Title \in UndatedTitles}

\* time.Now().UTC() as updateTable reads it
NowUTC == UTC(Time(clock, "Local"))

\* C7 as claimed (undated items): the item of an entry without a parsed
\* publish time has the zero date, comes after every dated item and is
\* rendered as "Unknown date".
C7_UndatedUnknownLast ==
    Returned =>
        \A k \in Undated(items) :
            /\ IsZero(items[k].Date)
            /\ \A j \in DOMAIN items \ Undated(items) : j < k
            /\ formatDate(items[k].Date, NowUTC) = UnknownDate

\* C7 as amended: the item of an entry without a parsed publish time has the
\* instant time.Now() answered when it was built, in UTC, which is never the
\* zero time; it comes before every item of an earlier date, and formatDate
\* does not render it as "Unknown date".
C7_UndatedGetNow ==
    Returned =>
        \A k \in Undated(items) :
            /\ items[k].Date.loc = "UTC"
            /\ StartClock <= items[k].Date.t /\ items[k].Date.t <= clock
            /\ ~IsZero(items[k].Date)
            /\ \A j \in DOMAIN items : items[j].Date.t < items[k].Date.t => k < j
            /\ formatDate(items[k].Date, NowUTC) # UnknownDate

\* an undated item between a dated item of a later date and one of an earlier
C7_Witness ==
    /\ Returned
    /\ \E k \in Undated(items) :
         /\ \E j \in DOMAIN items \ Undated(items) :
               items[j].Date.t < items[k].Date.t /\ k < j
         /\ \E j \in DOMAIN items \ Undated(items) :
               items[j].Date.t > items[k].Date.t /\ j < k

\* the number of the calendar day x falls on, on the local clock
LocalDay(x) == DayIndex(Local(x))

\* C8: for every non-zero timestamp d and every instant now, formatDate
\* answers "Today at" exactly when d is on the local calendar day of now,
\* "Yesterday at" exactly when d is on the calendar day before that, the
\* weekday form when d is otherwise within the 7 days before now, the full
\* "Month D, YYYY" form in every other case; the zero timestamp gives
\* "Unknown date".  The code compares the days of the month only and puts
\* no lower limit on the age, so a later date breaks it.
C8_RelativeDate ==
    fnOut.fn = "formatDate" =>
        LET d == fnIn.date
            now == fnIn.now
            age == Sub(now, d)
        IN  fnOut.out.form =
                IF IsZero(d) THEN "Unknown date"
                ELSE IF LocalDay(d) = LocalDay(now) THEN "Today at"
                ELSE IF LocalDay(d) = LocalDay(now) - 1 THEN "Yesterday at"
                ELSE IF age >= 0 /\ age < 7 * HoursPerDay THEN "Monday at"
                ELSE "January 2, 2006"

\* the text of s before its first "#"
BeforeFragment(s) ==
    LET marks == {i \in 1..Len(s) : s[i] = "#"}
    IN  IF marks = {} THEN s
        ELSE SubSeq(s, 1, (CHOOSE i \in marks : \A j \in marks : i <= j) - 1)

\* The path of the URL link, without its leading "/" and with the query it
\* may carry: what follows the first "/" after `scheme://host`, or what
\* follows the leading "/" of a link that has no scheme.
PathOfLink(link) ==
    LET at == IndexOf(link, <<":", "/", "/">>)
        from == IF at = 0 THEN 1 ELSE at + 3
        slashes == {i \in from..Len(link) : link[i] = "/"}
        marks == {i \in from..Len(link) : link[i] = "#"}
        slash == CHOOSE i \in slashes : \A j \in slashes : i <= j
    IN  IF at = 0
        THEN BeforeFragment(IF HasPrefix(link, <<"/">>) THEN Tail(link) ELSE link)
        ELSE IF slashes = {} \/ (\E m \in marks : \A i \in slashes : m < i)
        THEN <<>>
        ELSE BeforeFragment(SubSeq(link, slash + 1, Len(link)))

\* C9 as claimed: for a source whose URL contains "nitter." and every entry
\* link, the stored link is https://x.com/ followed by the path of the entry
\* link, its fragment cut off; for every other source the stored link is the
\* entry link.
C9_LinkRewriteEveryLink ==
    fnOut.fn = "fixNitterLink" =>
        fnOut.out = IF Contains(fnIn.feedURL, <<"n", "i", "t", "t", "e", "r", ".">>)
                    THEN <<"h", "t", "t", "p", "s", ":", "/", "/", "x", ".", "c", "o", "m", "/">> \o PathOfLink(fnIn.itemLink)
                    ELSE fnIn.itemLink

\* link has, from position i on, http:// or https://, then one character or
\* more other than "/", then the "/" at position j
HostedAt(link, i, j) ==
    \E n \in {7, 8} :
        /\ i + n < j /\ j <= Len(link)
        /\ SubSeq(link, i, i + n - 1) = (IF n = 7 THEN <<"h", "t", "t", "p", ":", "/", "/">> ELSE <<"h", "t", "t", "p", "s", ":", "/", "/">>)
        /\ link[j] = "/"
        /\ \A k \in (i + n)..(j - 1) : link[k] # "/"

Hosted(link) == \E i, j \in 1..Len(link) : HostedAt(link, i, j)

\* C9 as amended: for a source whose URL contains "nitter.", an entry link
\* that holds http:// or https://, a host of one character or more and a "/"
\* after it is stored as https://x.com/ followed by what comes after that "/"
\* (of the leftmost such place) up to the first "#"; every other entry link
\* of such a source, and every entry link of any other source, is stored
\* unchanged.
C9_LinkRewrite ==
    fnOut.fn = "fixNitterLink" =>
        LET link == fnIn.itemLink
        IN  IF Contains(fnIn.feedURL, <<"n", "i", "t", "t", "e", "r", ".">>) /\ Hosted(link)
            THEN \E i, j \in 1..Len(link) :
                    /\ HostedAt(link, i, j)
                    /\ \A i2 \in 1..(i - 1) : \A j2 \in 1..Len(link) :
                           ~HostedAt(link, i2, j2)
                    /\ fnOut.out = <<"h", "t", "t", "p", "s", ":", "/", "/", "x", ".", "c", "o", "m", "/">>
                           \o BeforeFragment(SubSeq(link, j + 1, Len(link)))
            ELSE fnOut.out = link

\* a link with a fragment rewritten for a nitter source
C9_Witness ==
    /\ fnOut.fn = "fixNitterLink"
    /\ fnIn.feedURL = <<"h", "t", "t", "p", "s", ":", "/", "/", "n", "i", "t", "t", "e", "r", ".", "x", "/", "r">>
    /\ fnIn.itemLink = <<"x", " ", "h", "t", "t", "p", ":", "/", "/", "m", ".", "x", "/", "u", "#">>
    /\ fnOut.out = <<"h", "t", "t", "p", "s", ":", "/", "/", "x", ".", "c", "o", "m", "/", "u">>

\* s ends in p
HasSuffix(s, p) == Len(p) <= Len(s) /\ SubSeq(s, Len(s) - Len(p) + 1, Len(s)) = p

\* C10: openURL takes a target URL for media if and only if the path of the
\* URL ends in a media file extension, whatever the case of its letters
\* and whether or not a query follows, or the host of the URL is one of
\* youtube.com and youtu.be; every other URL it takes for a plain link.
\* Stated on Linux, where the media player is started for a media URL.  The
\* code looks for the names anywhere in the URL and for the extension at
\* the end of the whole URL.
C10_MediaClassification ==
    (fnOut.fn = "openURL" /\ fnIn.goos = "linux") =>
        ((fnOut.out.mime # "")
            <=> \/ HasSuffix(ToLower(fnIn.path), <<".", "m", "p", "3">>)
                \/ HasSuffix(ToLower(fnIn.path), <<".", "w", "a", "v">>)
                \/ Contains(ToLower(fnIn.host), <<"y", "o", "u", "t", "u", "b", "e", ".", "c", "o", "m">>)
                \/ Contains(ToLower(fnIn.host), <<"y", "o", "u", "t", "u", ".", "b", "e">>))

\* the commands that start something
LaunchCommands == {"gtk-launch", "xdg-open", "open", "cmd /c start"}

\* C11: activating row r of the table with 0 <= r < len(filteredItems) calls
\* openURL once, for the AudioURL of filteredItems[r] when it is not empty
\* and for its Link otherwise, and when openURL returns no error one command
\* was started for that URL; activating a row outside that range starts
\* nothing; an error of openURL is printed, and the activation leaves
\* searchQuery, filteredItems and items as they were.
C11_ActionResolution ==
    [][mainPc = "ui" =>
          IF selRow >= 0 /\ selRow < Len(filteredItems)
          THEN lastLaunch' # NoLaunch =>
                  /\ lastLaunch'.url = (IF filteredItems[selRow + 1].AudioURL # <<>>
                                        THEN filteredItems[selRow + 1].AudioURL
                                        ELSE filteredItems[selRow + 1].Link)
                  /\ ~lastLaunch'.err => lastLaunch'.cmd \in LaunchCommands
                  /\ lastLaunch'.printed = lastLaunch'.err
                  /\ searchQuery' = searchQuery
                  /\ filteredItems' = filteredItems
                  /\ items' = items
          ELSE lastLaunch' = NoLaunch]_vars

\* an activation of a row whose item has an AudioURL failed and was reported,
\* the view being filtered
C11_Witness ==
    /\ mainPc = "ui"
    /\ lastLaunch.err /\ lastLaunch.printed
    /\ searchQuery # <<>>
    /\ selRow >= 0 /\ selRow < Len(filteredItems)
    /\ filteredItems[selRow + 1].AudioURL # <<>>
    /\ filteredItems[selRow + 1].Link # <<>>
    /\ lastLaunch.url = filteredItems[selRow + 1].AudioURL

\* the workers between mutex.Lock() and mutex.Unlock()
Critical == At("append") \cup At("unlock")

\* the batches of the sources in set, one after the other
RECURSIVE Batches(_)
Batches(set) ==
    IF set = {} THEN <<>>
    ELSE LET i == CHOOSE j \in set : \A k \in set : j <= k
         IN  produced[i] \o Batches(set \ {i})

\* a step that leaves items alone, the sort of the main goroutine, or the
\* append of one worker that holds the mutex: its whole batch, the one built
\* for its source, goes to the end of items in that one step
AppendStep ==
    \/ items' = items
    \/ mainPc = "sort" /\ mainPc' = "returned"
    \/ /\ mutex /\ mutex'
       /\ \E r \in At("append") :
             /\ items' = items \o r.feedItems
             /\ r.feedItems = produced[SourceIndex(r.source.URL)]
             /\ Becomes(r, [r EXCEPT !.pc = "unlock"])

\* C12 (mutual exclusion, no lost update): never are two workers between
\* Lock and Unlock, and one is there exactly when the mutex is held; items
\* changes only by the whole batch of the one worker holding the mutex, in
\* one step; and when fetchFeeds has returned items is, as a multiset, the
\* batches of the sources that parsed, each once.
C12_MutualExclusion ==
    /\ [](/\ Cardinality(Critical) <= 1
          /\ \A r \in Critical : CopiesIn(r, pool) = 1
          /\ mutex <=> Critical # {})
    /\ [][AppendStep]_vars
    /\ [](mainPc \in {"sort", "returned"} => IsPermutation(items, Batches(Succeeded)))

\* one worker has appended its batch to that of an earlier one and still
\* holds the mutex, while a third waits for it
C12_Witness ==
    /\ mutex
    /\ \E r \in At("unlock") : Len(items) > Len(r.feedItems)
    /\ At("lock") # {}
    /\ items # <<>>

\* how many times source i is in the jobs channel, and how many workers
\* have it in hand
InJobs(i) == Count(jobs, SourceOf(i))
RECURSIVE Copies(_)
Copies(rs) ==
    IF rs = {} THEN 0
    ELSE LET r == CHOOSE x \in rs : TRUE
         IN  CopiesIn(r, pool) + Copies(rs \ {r})
Held(i) == Copies({r \in BagToSet(pool) : r.source = SourceOf(i)})

\* a step in which no call of fp.ParseURL returns, or the one call for a
\* source that no call had returned for before
FetchStep ==
    \A i \in 1..S :
        outcome'[i] # outcome[i] =>
            /\ outcome[i] = "pending"
            /\ \E r \in At("fetch") : r.source = SourceOf(i)

\* a step in which no worker leaves fp.ParseURL, or one does and it is the
\* first answer for its source
AnswerStep ==
    \A r \in At("fetch") :
        CopiesIn(r, pool') < CopiesIn(r, pool) =>
            /\ outcome[SourceIndex(r.source.URL)] = "pending"
            /\ outcome'[SourceIndex(r.source.URL)] # "pending"

\* C13 (exactly once): a source that was sent is in the jobs channel once,
\* or in the hands of one worker, or its fetch has ended; a source still in
\* the channel has not been fetched; fp.ParseURL answers for a source at
\* most once, to the worker that took it, whether with a feed or with an
\* error; and when fetchFeeds has returned it has answered for every source.
C13_ExactlyOnce ==
    /\ [](\A i \in 1..S :
            /\ InJobs(i) + Held(i) <= 1
            /\ i > sent => InJobs(i) + Held(i) = 0 /\ outcome[i] = "pending"
            /\ InJobs(i) = 1 => outcome[i] = "pending"
            /\ (i <= sent /\ InJobs(i) + Held(i) = 0) => outcome[i] # "pending")
    /\ [][FetchStep /\ AnswerStep]_vars
    /\ [](Returned => \A i \in 1..S : outcome[i] # "pending" /\ Held(i) = 0)

\* a worker that met a failure holds its next source while another source
\* waits in the channel and fetchFeeds has sent them all
C13_Witness ==
    /\ S = 3 /\ sent = 3
    /\ \E r \in At("fetch") : r.hit
    /\ Failed # {}
    /\ Len(jobs) = 1

\* C14 (no error for feed problems): fetchFeeds returns the nil error
\* whatever the sources did; without sources what it returns is empty, and
\* with failing sources, all of them too, it returns the items of those
\* that parsed and of no other.
C14_NoFetchError ==
    /\ ~Returned => fetchErr = "unset"
    /\ Returned =>
         /\ fetchErr = "nil"
         /\ S = 0 => items = <<>>
         /\ Succeeded = {} => items = <<>>
         /\ IsPermutation(items, Batches(Succeeded))
         /\ Failed \cup Succeeded = 1..S

\* fetchFeeds has returned, and main has gone on, after every one of three
\* sources failed
C14_Witness ==
    /\ mainPc = "ui"
    /\ S = 3
    /\ Cardinality(Failed) = 3
    /\ Len(notes) = 3
    /\ items = <<>>
    /\ fetchErr = "nil"


\* the items the program holds: in items, in filteredItems, with the workers
HeldItems ==
    Elems(items) \cup Elems(filteredItems)
        \cup UNION {Elems(r.feedItems) : r \in BagToSet(pool)}

\* SearchText of x is made of its own three fields, and has no capital
SearchTextOf(x) ==
    /\ x.SearchText = ToLower(x.Title) \o <<" ">> \o ToLower(x.FeedTitle)
                          \o <<" ">> \o ToLower(x.Description)
    /\ \A k \in DOMAIN x.SearchText : x.SearchText[k] \notin Elems(Uppers)

\* x is, field for field, one of the items built for a source, and has the
\* configured name of that source for FeedTitle, or the title of its feed
\* when no name is configured
BuiltOnce(x) ==
    \E i \in 1..S :
        /\ x \in Elems(produced[i])
        /\ x.FeedTitle = IF SourceOf(i).Name # <<>> THEN SourceOf(i).Name
                         ELSE RemoteFeed(i).Title

\* C15 (search text): at every point, in items and in filteredItems, the
\* SearchText of an item is lowercase(Title), a space, lowercase(FeedTitle),
\* a space, lowercase(Description) of that item, FeedTitle being the
\* configured name of the source if there is one and the title of the feed
\* otherwise; the item is as it was built, and what was built for a source
\* does not change.
C15_SearchText ==
    /\ [](\A x \in HeldItems : SearchTextOf(x) /\ BuiltOnce(x))
    /\ [][\A i \in 1..S : produced[i] # <<>> => produced'[i] = produced[i]]_vars

\* a filtered view that holds an item named after its feed and one named
\* after the configuration, both with capitals in title and description
C15_Witness ==
    /\ mainPc = "ui"
    /\ searchQuery # <<>>
    /\ \E x, y \in Elems(filteredItems) :
          /\ x.FeedTitle = RemoteFeed(1).Title
          /\ y.FeedTitle = SourceOf(2).Name
          /\ \E k \in DOMAIN x.Title : x.Title[k] \in Elems(Uppers)
          /\ \E k \in DOMAIN y.Description : y.Description[k] \in Elems(Uppers)
          /\ \E k \in DOMAIN x.FeedTitle : x.FeedTitle[k] \in Elems(Uppers)

\* C16 (filtering does not mutate): once fetchFeeds has returned no step
\* changes items, the items in it or what was built for the sources; so
\* the view is at every point of the session what the changed handler
\* makes of items for the text in the search field, whatever the texts
\* before it, and is made of items of items.
C16_FilterNonMutating ==
    /\ [][Returned => items' = items /\ produced' = produced]_vars
    /\ [](mainPc = "ui" =>
            /\ filteredItems = changedFunc(ui, items, inputText).filteredItems
            /\ \A x \in Elems(filteredItems) : x \in Elems(items))

\* a text has narrowed the view to some of the four items of three sources,
\* and items holds the four as fetchFeeds returned them
C16_Witness ==
    /\ mainPc = "ui"
    /\ focus = "search"
    /\ inputText = <<"a">>
    /\ Len(items) = 4
    /\ IsPermutation(items, Batches(Succeeded))
    /\ Len(filteredItems) > 0
    /\ Len(filteredItems) < Len(items)

\* a step that builds no items, or builds those of source i: the item of an
\* entry without a parsed time has an instant the clock showed during the
\* step, in UTC; the item of an entry with a parsed time has that instant,
\* in UTC
NormalizeStep ==
    \A i \in 1..S :
        produced'[i] # produced[i] =>
            /\ Len(produced'[i]) = Len(RemoteFeed(i).Items)
            /\ \A k \in DOMAIN produced'[i] :
                  LET parsed == RemoteFeed(i).Items[k].PublishedParsed
                      date == produced'[i][k].Date
                  IN  /\ date.loc = "UTC"
                      /\ IF parsed = NilTime
                         THEN clock <= date.t /\ date.t <= clock'
                         ELSE date.t = parsed.t
            /\ \A j, k \in DOMAIN produced'[i] :
                  (j < k /\ RemoteFeed(i).Items[j].PublishedParsed = NilTime
                         /\ RemoteFeed(i).Items[k].PublishedParsed = NilTime)
                      => produced'[i][j].Date.t <= produced'[i][k].Date.t

\* C17 (time of an undated entry): an entry without a parsed publish time
\* gets the instant time.Now() answers when its item is built, an entry with
\* one keeps that instant, both in UTC; in what fetchFeeds returns every item
\* comes before each item of an earlier instant, the undated among them.
C17_TimestampSubstitution ==
    /\ [][NormalizeStep]_vars
    /\ [](Returned =>
            \A k \in DOMAIN items :
                /\ items[k].Date.loc = "UTC"
                /\ \A j \in DOMAIN items :
                      items[j].Date.t < items[k].Date.t => k < j)

\* the clock moved on before the undated entry was built, and its item
\* comes before the two dated ones of earlier instants
C17_Witness ==
    /\ mainPc = "returned"
    /\ LastClock > StartClock
    /\ \E k \in Undated(items) :
          /\ items[k].Date = Time(LastClock, "UTC")
          /\ Cardinality({j \in DOMAIN items :
                             j > k /\ items[j].Date.t < items[k].Date.t}) = 2

\* the main goroutine is at the sort, or past it and reading items
SortBegun == mainPc = "sort" \/ Returned

\* C18 (the order comes last): when the sort begins, and at every read of
\* items by main after it, every worker has returned, the results channel
\* is closed and empty and nobody holds or awaits the mutex; from then on
\* items changes by the sort alone, which rearranges it: no worker appends
\* during the sort or after it.
C18_SortAfterWorkers ==
    /\ [](SortBegun =>
            /\ AllExited
            /\ resultsClosed /\ results = <<>>
            /\ jobsClosed /\ jobs = <<>>
            /\ ~mutex
            /\ progress = S)
    /\ [][SortBegun =>
            \/ items' = items
            \/ mainPc = "sort" /\ mainPc' = "returned" /\ IsPermutation(items', items)]_vars

\* the sort is about to begin on four items that are not in order, all five
\* workers having returned
C18_Witness ==
    /\ mainPc = "sort"
    /\ Len(items) = 4
    /\ pool = [r \in {[Idle EXCEPT !.pc = "done"]} |-> workers]
    /\ \E k \in 1..3 : items[k].Date.t < items[k + 1].Date.t

\* the workers about to send on results
Senders == At("sendErr") \cup At("sendNil")

\* how many results were sent so far: those received and those in the buffer
ResultsSent == progress + Len(results)

\* C19 (capacity): the jobs channel never holds more than S sources nor the
\* results channel more than S results; the send of a source by main finds
\* room and the channel open, and so does the send of a result by a worker,
\* whatever the collector has received; S results are sent before results
\* is closed, and none is sent after.
C19_QueueCapacity ==
    /\ [](/\ Len(jobs) <= S /\ Len(results) <= S
          /\ (mainPc = "send" /\ sent < S) => (Len(jobs) < S /\ ~jobsClosed)
          /\ Senders # {} => (Len(results) < S /\ ~resultsClosed)
          /\ ResultsSent + Copies(Senders) <= S
          /\ resultsClosed => (ResultsSent = S /\ Senders = {}))
    /\ [][resultsClosed => (results' = results \/ results' = Tail(results))]_vars

\* the results channel is full of the results of three sources before the
\* collector has received any
C19_Witness ==
    /\ S = 3
    /\ Len(results) = 3
    /\ progress = 0
    /\ ~resultsClosed
====
